---------------------------- MODULE Spec2Model ----------------------------
(***************************************************************************)
(* HybridHashTable<std::string, V>: one table with three placement modes   *)
(* (Cuckoo, Hopscotch, Robin Hood) over shared backing arrays and an       *)
(* overflow stash.  Every public operation runs under the table's          *)
(* shared_mutex, so each operation is one atomic action here.              *)
(*                                                                         *)
(* Representation.                                                         *)
(*   std::optional<std::pair<Key,Value>>  nullopt = << >>, a pair = <<k,v>>*)
(*   std::optional<Value>                 nullopt = << >>, a value = <<v>> *)
(*   std::vector of length n              a function on 0 .. n-1           *)
(*   size_t numElements_                  the residue modulo 2^64 written  *)
(*                                        as the signed integer next to 0  *)
(*                                        (-1 stands for 2^64 - 1)         *)
(*   double loadFactor()                  the fraction <<num, den>>        *)
(* The counters totalInsertions_, totalCollisions_ and totalProbes_ are    *)
(* written by insert and read only by switchModeIfNeeded, which nothing    *)
(* calls; they are left out.                                               *)
(***************************************************************************)
EXTENDS Integers, Sequences, FiniteSets, TLC

(***************************************************************************)
(* Bounds of the model.  The three budgets, the neighbourhood width and    *)
(* the stash limit are program constants, scaled down so that a table of a *)
(* few slots meets them: a probe or eviction chain that runs out of        *)
(* budget, a full stash, two neighbourhoods in one table.  The budgets are *)
(* 8, which is 500 modulo 12, so that a chain cycling with period 1, 2, 3, *)
(* 4, 6 or 12 ends on the same item as the source's chain of 500.          *)
(***************************************************************************)
\* HybridHashTable.hpp:53, MAX_EVICTIONS = 500
MAX_EVICTIONS == 8
\* HybridHashTable.hpp:61, MAX_DISPLACEMENTS = 500
MAX_DISPLACEMENTS == 8
\* HybridHashTable.hpp:65, MAX_PROBE_DISTANCE = 500
MAX_PROBE_DISTANCE == 8
\* HybridHashTable.hpp:60, HOP_RANGE = 32
HOP_RANGE == 2
\* HybridHashTable.hpp:69, MAX_STASH_SIZE = 10000000
MAX_STASH_SIZE == 1
\* numElements_ is kept within MaxDrift of the number of stored entries by the
\* guards of insert and remove
MaxDrift == 1
\* the number of threads that call one table concurrently
NumThreads == 2

\* initialSize of the constructor and newSize of resize
InitialSizes == {0, 1, 2, 3}
NewSizes == {0, 1}

TOMBSTONE == "__TOMBSTONE__"

Keys == {"k1", "k2", "k3", TOMBSTONE}
DefaultValue == 0
\* the (key, value) pairs insert is called with: every key with value 1, and
\* one key with a second value, so that a stored value can differ from the
\* value of a later insert of the same key
Inputs == (Keys \X {1}) \cup {<<"k1", 2>>}
HashModes == {"Cuckoo", "Hopscotch", "RobinHood"}

nullopt == << >>

VARIABLES
    capacity_,        \* size_t capacity_
    numElements_,     \* size_t numElements_
    currentMode_,     \* HashMode currentMode_
    table_,           \* main table
    table2_,          \* second table (Cuckoo)
    hopInfo_,         \* neighbourhood bitmaps (Hopscotch)
    probeDistances_,  \* probe distances (Robin Hood)
    stash_,           \* overflow stash
    status,           \* "ok", "crashed" (index modulo 0), "deadlock" (mutex_ re-locked by its owner and never granted)
    lastOp,           \* the last public call: its name, arguments and result
    mutex_,           \* std::shared_mutex mutex_: its exclusive owner (0: none) and its shared holders
    inside            \* for each thread, the public method whose body it is in ("none": outside)

vars == <<capacity_, numElements_, currentMode_, table_, table2_, hopInfo_,
          probeDistances_, stash_, status, lastOp, mutex_, inside>>

storage == <<capacity_, numElements_, currentMode_, table_, table2_, hopInfo_,
             probeDistances_, stash_>>

\* the threads that call the table, and the lock state they move
Threads == 1 .. NumThreads
locking == <<mutex_, inside>>
Unlocked == [owner |-> 0, shared |-> {}]
Outside == [t \in Threads |-> "none"]

(***************************************************************************)
(* Hash provider.  std::hash<std::string> is implementation-defined; the   *)
(* digests below are one assignment, all below 2^16 so that hash2's sum    *)
(* does not wrap at 64 bits.  The digest of the sentinel string has the    *)
(* residues of libstdc++'s std::hash("__TOMBSTONE__") modulo 1 .. 4, and   *)
(* so has its hash2.                                                       *)
(***************************************************************************)
StdHash(key) ==
    CASE key = "k1" -> 0
      [] key = "k2" -> 2
      [] key = "k3" -> 8
      [] key = TOMBSTONE -> 546
      [] key = "k4" -> 5

RECURSIVE Xor(_, _)
Xor(a, b) ==
    IF a = 0 THEN b
    ELSE IF b = 0 THEN a
    ELSE (((a % 2) + (b % 2)) % 2) + 2 * Xor(a \div 2, b \div 2)

\* HashUtils::hash and HashUtils::hash1
HashUtils_hash(key) == StdHash(key)

\* HashUtils::hash2: (h ^ 0x9e3779b9) + (h << 6) + (h >> 2), as the limbs
\* <<hi, lo>> of hi * 2^16 + lo.  0x9e3779b9 = 40503 * 2^16 + 31161.
HashUtils_hash2(key) ==
    LET h == StdHash(key)
    IN  <<40503, Xor(h, 31161) + (h * 64) + (h \div 4)>>

\* hash(key) = hash_(key) % capacity_ ; hash1 likewise
hash(key) == HashUtils_hash(key) % capacity_
hash1(key) == HashUtils_hash(key) % capacity_
hash2(key) ==
    LET d == HashUtils_hash2(key)
    IN  (((d[1] % capacity_) * (65536 % capacity_)) + d[2]) % capacity_

Min(a, b) == IF a < b THEN a ELSE b

isTombstone(slot) == slot # nullopt /\ slot[1] = TOMBSTONE
getNeighborhoodStart(index) == (index \div HOP_RANGE) * HOP_RANGE
getNeighborhoodEnd(index) == Min(getNeighborhoodStart(index) + HOP_RANGE, capacity_)
getProbeDistance(idealIndex, currentIndex) ==
    IF currentIndex >= idealIndex THEN currentIndex - idealIndex
    ELSE capacity_ - idealIndex + currentIndex

\* hopBitmap & (1U << i)
TestBit(bitmap, i) == (bitmap \div (2 ^ i)) % 2 = 1

(***************************************************************************)
(* Stash.                                                                  *)
(***************************************************************************)
\* searchStash: the value of the first stash entry with this key
searchStash(key) ==
    LET hits == {i \in 1 .. Len(stash_) : stash_[i][1] = key}
    IN  IF hits = {} THEN nullopt
        ELSE <<stash_[CHOOSE i \in hits : \A j \in hits : i <= j][2]>>

(***************************************************************************)
(* searchInternal: the lock-free lookup used by search and insert.         *)
(***************************************************************************)
\* the Robin Hood probe loop of searchInternal and remove stops at the first
\* probe that meets an empty slot or a slot holding the key that is no
\* tombstone
RobinHoodStopsAt(key, probe) ==
    LET slot == table_[(hash(key) + probe) % capacity_]
    IN  \/ slot = nullopt
        \/ (slot[1] = key /\ ~isTombstone(slot))

\* the probe at which the loop stops, -1 when no probe below
\* MAX_PROBE_DISTANCE stops it
RobinHoodStop(key) ==
    IF \E probe \in 0 .. MAX_PROBE_DISTANCE - 1 : RobinHoodStopsAt(key, probe)
    THEN CHOOSE probe \in 0 .. MAX_PROBE_DISTANCE - 1 :
            /\ RobinHoodStopsAt(key, probe)
            /\ \A earlier \in 0 .. probe - 1 : ~RobinHoodStopsAt(key, earlier)
    ELSE -1

SearchRobinHood(key) ==
    LET probe == RobinHoodStop(key)
        slot == table_[(hash(key) + probe) % capacity_]
    IN  IF probe = -1 \/ slot = nullopt THEN nullopt ELSE <<slot[2]>>

SearchHopscotch(key) ==
    LET baseIndex == hash(key)
        start == getNeighborhoodStart(baseIndex)
        end == getNeighborhoodEnd(baseIndex)
        hopBitmap == hopInfo_[baseIndex]
        hits == {i \in 0 .. HOP_RANGE - 1 :
                    /\ start + i < end
                    /\ TestBit(hopBitmap, i)
                    /\ table_[start + i] # nullopt
                    /\ table_[start + i][1] = key
                    /\ ~isTombstone(table_[start + i])}
    IN  IF hits = {} THEN nullopt
        ELSE <<table_[start + (CHOOSE i \in hits : \A j \in hits : i <= j)][2]>>

SearchCuckoo(key) ==
    LET idx1 == hash1(key)
        idx2 == hash2(key)
    IN  IF table_[idx1] # nullopt /\ table_[idx1][1] = key /\ ~isTombstone(table_[idx1])
        THEN <<table_[idx1][2]>>
        ELSE IF table2_[idx2] # nullopt /\ table2_[idx2][1] = key /\ ~isTombstone(table2_[idx2])
        THEN <<table2_[idx2][2]>>
        ELSE nullopt

searchInternal(key) ==
    LET found == CASE currentMode_ = "Cuckoo" -> SearchCuckoo(key)
                   [] currentMode_ = "Hopscotch" -> SearchHopscotch(key)
                   [] currentMode_ = "RobinHood" -> SearchRobinHood(key)
    IN  IF found # nullopt THEN found ELSE searchStash(key)

(***************************************************************************)
(* The entries the table holds: slots of either table that are neither     *)
(* empty nor tombstones, and the entries of the stash.                     *)
(***************************************************************************)
LiveSlots(tbl) == {i \in DOMAIN tbl : tbl[i] # nullopt /\ ~isTombstone(tbl[i])}
LiveEntries == Cardinality(LiveSlots(table_)) + Cardinality(LiveSlots(table2_)) + Len(stash_)
Drift == numElements_ - LiveEntries

(***************************************************************************)
(* Construction.                                                           *)
(***************************************************************************)
EmptyTable(n) == [i \in 0 .. n - 1 |-> nullopt]
Zeros(n) == [i \in 0 .. n - 1 |-> 0]

Init ==
    /\ capacity_ \in InitialSizes
    /\ numElements_ = 0
    /\ currentMode_ = "Hopscotch"
    /\ table_ = EmptyTable(capacity_)
    /\ table2_ = EmptyTable(capacity_)
    /\ hopInfo_ = Zeros(capacity_)
    /\ probeDistances_ = Zeros(capacity_)
    /\ stash_ = << >>
    /\ status = "ok"
    /\ lastOp = [op |-> "create", key |-> "", value |-> 0, ret |-> TRUE, steps |-> 0]
    /\ mutex_ = Unlocked
    /\ inside = Outside

(***************************************************************************)
(* Read-only operations.                                                   *)
(***************************************************************************)
\* search, size and loadFactor are const: they return searchInternal(key),
\* numElements_ and numElements_ / (capacity_ + stash_.size()) and change
\* nothing, except that search of a table of capacity 0 takes an index modulo 0:
\* undefined behaviour, which the x86-64 build turns into a trap (SIGFPE) that
\* ends the process, here status "crashed"; insert and remove do the same
search(key) == searchInternal(key)
size == numElements_
loadFactor == <<numElements_, capacity_ + Len(stash_)>>

Search(key) ==
    /\ status = "ok"
    /\ IF capacity_ = 0
       THEN /\ status' = "crashed"
            /\ lastOp' = [op |-> "search", key |-> key, value |-> 0, ret |-> FALSE, steps |-> 0]
       ELSE UNCHANGED <<status, lastOp>>
    /\ UNCHANGED storage

Size ==
    /\ status = "ok"
    /\ UNCHANGED <<storage, status, lastOp>>

LoadFactor ==
    /\ status = "ok"
    /\ UNCHANGED <<storage, status, lastOp>>

(***************************************************************************)
(* setMode: switch the mode and clear everything.                          *)
(***************************************************************************)
SetMode(mode) ==
    /\ status = "ok"
    /\ currentMode_' = mode
    /\ table_' = EmptyTable(capacity_)
    /\ table2_' = EmptyTable(capacity_)
    /\ hopInfo_' = Zeros(capacity_)
    /\ probeDistances_' = Zeros(capacity_)
    /\ stash_' = << >>
    /\ numElements_' = 0
    /\ lastOp' = [op |-> "setMode", key |-> mode, value |-> 0, ret |-> TRUE, steps |-> 0]
    /\ UNCHANGED <<capacity_, status>>

(***************************************************************************)
(* Hopscotch helpers.                                                      *)
(***************************************************************************)
SetOfMin(S) == CHOOSE i \in S : \A j \in S : i <= j

\* findEmptySlot on the table tbl: the first empty or tombstoned slot of
\* [start, end), capacity_ when there is none
findEmptySlot(tbl, start, end) ==
    LET free == {i \in start .. end - 1 : tbl[i] = nullopt \/ isTombstone(tbl[i])}
    IN  IF free = {} THEN capacity_ ELSE SetOfMin(free)

\* updateHopInfo on the bitmaps hop: set or clear bit targetIndex - start
updateHopInfo(hop, baseIndex, targetIndex, add) ==
    LET bitPos == targetIndex - getNeighborhoodStart(baseIndex)
        old == hop[baseIndex]
    IN  IF add
        THEN [hop EXCEPT ![baseIndex] = IF TestBit(old, bitPos) THEN old ELSE old + 2 ^ bitPos]
        ELSE [hop EXCEPT ![baseIndex] = IF TestBit(old, bitPos) THEN old - 2 ^ bitPos ELSE old]

\* displace's test of the slot at distance d from index: it holds a live entry
\* that lies in its own neighbourhood, and that neighbourhood has a free slot
Movable(index, d) ==
    LET checkIndex == (index + d) % capacity_
        slot == table_[checkIndex]
    IN  /\ slot # nullopt
        /\ ~isTombstone(slot)
        /\ checkIndex >= getNeighborhoodStart(hash(slot[1]))
        /\ checkIndex < getNeighborhoodEnd(hash(slot[1]))
        /\ findEmptySlot(table_, getNeighborhoodStart(hash(slot[1])),
                         getNeighborhoodEnd(hash(slot[1]))) # capacity_

\* the first d in 1 .. MAX_DISPLACEMENTS that passes the test, 0 when none does
FirstMovable(index) ==
    IF \E d \in 1 .. MAX_DISPLACEMENTS : Movable(index, d)
    THEN CHOOSE d \in 1 .. MAX_DISPLACEMENTS :
            /\ Movable(index, d)
            /\ \A earlier \in 1 .. d - 1 : ~Movable(index, earlier)
    ELSE 0

\* displaceBy as it would be without displace's two updateHopInfo calls: the
\* entry moves and the bitmap of its anchor still names the slot it left
displaceByKeepingBitmap(index, d) ==
    LET checkIndex == (index + d) % capacity_
        targetBase == hash(table_[checkIndex][1])
        emptyIndex == findEmptySlot(table_, getNeighborhoodStart(targetBase),
                                    getNeighborhoodEnd(targetBase))
    IN  IF d = 0
        THEN [table |-> table_, hopInfo |-> hopInfo_, moved |-> FALSE]
        ELSE [table |-> [table_ EXCEPT ![emptyIndex] = table_[checkIndex],
                                       ![checkIndex] = nullopt],
              hopInfo |-> hopInfo_,
              moved |-> TRUE]

\* displace: the first d in 1 .. MAX_DISPLACEMENTS that passes the test moves
\* its entry to the free slot of its neighbourhood
displaceBy(index, d) ==
    LET checkIndex == (index + d) % capacity_
        targetBase == hash(table_[checkIndex][1])
        emptyIndex == findEmptySlot(table_, getNeighborhoodStart(targetBase),
                                    getNeighborhoodEnd(targetBase))
    IN  IF d = 0
        THEN [table |-> table_, hopInfo |-> hopInfo_, moved |-> FALSE]
        ELSE [table |-> [table_ EXCEPT ![emptyIndex] = table_[checkIndex],
                                       ![checkIndex] = nullopt],
              hopInfo |-> updateHopInfo(updateHopInfo(hopInfo_, targetBase, checkIndex, FALSE),
                                        targetBase, emptyIndex, TRUE),
              moved |-> TRUE]

displace(index) ==
    CHOOSE r \in {displaceBy(index, d) :
                    d \in {FirstMovable(index)}} : TRUE

(***************************************************************************)
(* insert, per mode.  Each yields the arrays after the mode's placement,   *)
(* whether it placed the item (numElements_ then grew by one) and the      *)
(* number of loop steps taken.                                             *)
(***************************************************************************)
\* InsertHopscotch as it would be if the scan for a free slot took the whole
\* table instead of the key's neighbourhood
InsertHopscotchAnywhere(key, value) ==
    LET emptyIndex == findEmptySlot(table_, 0, capacity_)
        same == [table |-> table_, table2 |-> table2_, hopInfo |-> hopInfo_,
                 probeDistances |-> probeDistances_, success |-> FALSE, steps |-> 0]
    IN  IF emptyIndex # capacity_
        THEN [same EXCEPT !.table = [table_ EXCEPT ![emptyIndex] = <<key, value>>],
                          !.success = TRUE]
        ELSE same

InsertHopscotch(key, value) ==
    LET baseIndex == hash(key)
        start == getNeighborhoodStart(baseIndex)
        end == getNeighborhoodEnd(baseIndex)
        emptyIndex == findEmptySlot(table_, start, end)
        same == [table |-> table_, table2 |-> table2_, hopInfo |-> hopInfo_,
                 probeDistances |-> probeDistances_, success |-> FALSE, steps |-> 0]
        afterDisplace(disp) ==
            LET newEmptyIndex == findEmptySlot(disp.table, start, end)
            IN  IF ~disp.moved THEN same
                ELSE IF newEmptyIndex # capacity_
                THEN [same EXCEPT
                        !.table = [disp.table EXCEPT ![newEmptyIndex] = <<key, value>>],
                        !.hopInfo = updateHopInfo(disp.hopInfo, baseIndex, newEmptyIndex, TRUE),
                        !.success = TRUE]
                ELSE [same EXCEPT !.table = disp.table, !.hopInfo = disp.hopInfo]
    IN  IF emptyIndex # capacity_
        THEN [same EXCEPT !.table = [table_ EXCEPT ![emptyIndex] = <<key, value>>],
                          !.hopInfo = updateHopInfo(hopInfo_, baseIndex, emptyIndex, TRUE),
                          !.success = TRUE]
        ELSE CHOOSE r \in {afterDisplace(disp) : disp \in {displace(baseIndex)}} : TRUE

\* RobinHoodStep as it would be without the swap with a richer resident: the
\* item passes every occupied slot
RobinHoodStepWithoutSwap(st) ==
    LET currentIndex == (st.idealIndex + st.steps) % capacity_
        slot == st.table[currentIndex]
    IN  IF slot = nullopt \/ isTombstone(slot)
        THEN [st EXCEPT !.table = [@ EXCEPT ![currentIndex] = st.item],
                        !.probeDistances = [@ EXCEPT ![currentIndex] = st.currentDistance],
                        !.success = TRUE,
                        !.steps = @ + 1]
        ELSE [st EXCEPT !.currentDistance = @ + 1, !.steps = @ + 1]

\* one iteration of the Robin Hood for loop; st.steps is the loop's probe
RobinHoodStep(st) ==
    LET currentIndex == (st.idealIndex + st.steps) % capacity_
        slot == st.table[currentIndex]
    IN  IF slot = nullopt \/ isTombstone(slot)
        THEN [st EXCEPT !.table = [@ EXCEPT ![currentIndex] = st.item],
                        !.probeDistances = [@ EXCEPT ![currentIndex] = st.currentDistance],
                        !.success = TRUE,
                        !.steps = @ + 1]
        ELSE IF st.currentDistance > st.probeDistances[currentIndex]
        THEN [st EXCEPT !.table = [@ EXCEPT ![currentIndex] = st.item],
                        !.probeDistances = [@ EXCEPT ![currentIndex] = st.currentDistance],
                        !.item = slot,
                        !.currentDistance = st.probeDistances[currentIndex] + 1,
                        !.steps = @ + 1]
        ELSE [st EXCEPT !.currentDistance = @ + 1, !.steps = @ + 1]

\* the for loop from st on: it ends at success or at probe = MAX_PROBE_DISTANCE;
\* n bounds the iterations still to run (halved to keep the evaluation shallow)
RECURSIVE RobinHoodLoop(_, _)
RobinHoodLoop(st, n) ==
    IF n = 0 \/ st.success \/ st.steps >= MAX_PROBE_DISTANCE THEN st
    ELSE IF n = 1 THEN RobinHoodStep(st)
    ELSE CHOOSE r \in {RobinHoodLoop(mid, n - (n \div 2)) :
                          mid \in {RobinHoodLoop(st, n \div 2)}} : TRUE

InsertRobinHood(key, value) ==
    CHOOSE r \in {RobinHoodLoop(st, MAX_PROBE_DISTANCE) :
        st \in {[table |-> table_, table2 |-> table2_, hopInfo |-> hopInfo_,
                 probeDistances |-> probeDistances_, success |-> FALSE, steps |-> 0,
                 item |-> <<key, value>>, idealIndex |-> hash(key),
                 currentDistance |-> 0]}} : TRUE

\* one iteration of the Cuckoo while loop; st.steps is the loop's evictions
CuckooStep(st) ==
    LET idx1 == hash1(st.item[1])
        evicted == st.table[idx1]
        idx2 == hash2(evicted[1])
    IN  IF evicted = nullopt \/ isTombstone(evicted)
        THEN [st EXCEPT !.table = [@ EXCEPT ![idx1] = st.item], !.success = TRUE]
        ELSE IF st.table2[idx2] = nullopt \/ isTombstone(st.table2[idx2])
        THEN [st EXCEPT !.table = [@ EXCEPT ![idx1] = st.item],
                        !.table2 = [@ EXCEPT ![idx2] = evicted],
                        !.steps = @ + 1,
                        !.success = TRUE]
        ELSE [st EXCEPT !.table = [@ EXCEPT ![idx1] = st.item],
                        !.table2 = [@ EXCEPT ![idx2] = evicted],
                        !.item = st.table2[idx2],
                        !.steps = @ + 2]

\* the while loop from st on: it ends at success or at evictions >= MAX_EVICTIONS
RECURSIVE CuckooLoop(_, _)
CuckooLoop(st, n) ==
    IF n = 0 \/ st.success \/ st.steps >= MAX_EVICTIONS THEN st
    ELSE IF n = 1 THEN CuckooStep(st)
    ELSE CHOOSE r \in {CuckooLoop(mid, n - (n \div 2)) :
                          mid \in {CuckooLoop(st, n \div 2)}} : TRUE

InsertCuckoo(key, value) ==
    CHOOSE r \in {CuckooLoop(st, MAX_EVICTIONS) :
        st \in {[table |-> table_, table2 |-> table2_, hopInfo |-> hopInfo_,
                 probeDistances |-> probeDistances_, success |-> FALSE, steps |-> 0,
                 item |-> <<key, value>>]}} : TRUE

Place(key, value) ==
    CASE currentMode_ = "Hopscotch" -> InsertHopscotch(key, value)
      [] currentMode_ = "RobinHood" -> InsertRobinHood(key, value)
      [] currentMode_ = "Cuckoo" -> InsertCuckoo(key, value)

\* insertIntoStash applied to the stash st: <<stash after, whether it was appended>>
insertIntoStash(st, key, value) ==
    IF Len(st) >= MAX_STASH_SIZE THEN <<st, FALSE>>
    ELSE <<Append(st, <<key, value>>), TRUE>>

\* the mode insert leaves behind: it computes the load of the table after the
\* insertion, and the call that would switch the mode on it is commented out
modeAfterInsertSwitching(elements, slots) ==
    IF 10 * elements > 8 * slots /\ currentMode_ # "RobinHood" THEN "RobinHood"
    ELSE IF 2 * elements < slots /\ currentMode_ # "Hopscotch" THEN "Hopscotch"
    ELSE currentMode_

modeAfterInsert(elements, slots) == currentMode_

\* insert
Insert(key, value) ==
    /\ status = "ok"
    /\ IF capacity_ = 0
       THEN /\ status' = "crashed"
            /\ lastOp' = [op |-> "insert", key |-> key, value |-> value, ret |-> FALSE,
                          steps |-> 0]
            /\ UNCHANGED storage
       ELSE IF searchInternal(key) # nullopt
       THEN /\ lastOp' = [op |-> "insert", key |-> key, value |-> value, ret |-> FALSE,
                          steps |-> 0]
            /\ UNCHANGED <<storage, status>>
       ELSE \E placed \in {Place(key, value)} :
            \E stashed \in {insertIntoStash(stash_, key, value)} :
                /\ table_' = placed.table
                /\ table2_' = placed.table2
                /\ hopInfo_' = placed.hopInfo
                /\ probeDistances_' = placed.probeDistances
                /\ stash_' = IF placed.success THEN stash_ ELSE stashed[1]
                /\ numElements_' = IF placed.success \/ stashed[2]
                                   THEN numElements_ + 1 ELSE numElements_
                /\ lastOp' = [op |-> "insert", key |-> key, value |-> value,
                              ret |-> (placed.success \/ stashed[2]),
                              steps |-> placed.steps]
                /\ currentMode_' = modeAfterInsert(numElements_', capacity_ + Len(stash_'))
                /\ UNCHANGED <<capacity_, status>>
                /\ Drift' <= MaxDrift

(***************************************************************************)
(* remove.                                                                 *)
(***************************************************************************)
Tomb == <<TOMBSTONE, DefaultValue>>

\* removeFromStash applied to the stash st: <<stash after, whether an entry was erased>>
removeFromStash(st, key) ==
    LET hits == {i \in 1 .. Len(st) : st[i][1] = key}
        first == SetOfMin(hits)
    IN  IF hits = {} THEN <<st, FALSE>>
        ELSE <<SubSeq(st, 1, first - 1) \o SubSeq(st, first + 1, Len(st)), TRUE>>

\* one iteration of backwardShift's loop, at st.probe
backwardShiftStep(st) ==
    LET nextIndex == (st.startIndex + st.probe) % capacity_
        slot == st.table[nextIndex]
        nextDistance == getProbeDistance(hash(slot[1]), nextIndex)
    IN  IF slot = nullopt \/ isTombstone(slot) THEN [st EXCEPT !.done = TRUE]
        ELSE IF nextDistance = 0 THEN [st EXCEPT !.done = TRUE]
        ELSE [st EXCEPT !.table = [@ EXCEPT ![st.currentIndex] = slot, ![nextIndex] = nullopt],
                        !.probeDistances = [@ EXCEPT ![st.currentIndex] = nextDistance - 1,
                                                     ![nextIndex] = 0],
                        !.currentIndex = nextIndex,
                        !.probe = @ + 1]

RECURSIVE backwardShiftLoop(_)
backwardShiftLoop(st) ==
    IF st.done \/ st.probe >= capacity_ THEN st
    ELSE CHOOSE r \in {backwardShiftLoop(next) : next \in {backwardShiftStep(st)}} : TRUE

\* backwardShift(startIndex) on the arrays tbl and pd
backwardShift(tbl, pd, startIndex) ==
    CHOOSE r \in {backwardShiftLoop(st) :
        st \in {[table |-> tbl, probeDistances |-> pd, startIndex |-> startIndex,
                 currentIndex |-> startIndex, probe |-> 1, done |-> FALSE]}} : TRUE

\* the mode's own part of remove: the arrays after it and whether it found the key
RemoveCuckoo(key) ==
    LET idx1 == hash1(key)
        idx2 == hash2(key)
        same == [table |-> table_, table2 |-> table2_, hopInfo |-> hopInfo_,
                 probeDistances |-> probeDistances_, found |-> FALSE]
    IN  IF table_[idx1] # nullopt /\ table_[idx1][1] = key
        THEN [same EXCEPT !.table = [table_ EXCEPT ![idx1] = Tomb], !.found = TRUE]
        ELSE IF table2_[idx2] # nullopt /\ table2_[idx2][1] = key
        THEN [same EXCEPT !.table2 = [table2_ EXCEPT ![idx2] = Tomb], !.found = TRUE]
        ELSE same

RemoveHopscotch(key) ==
    LET baseIndex == hash(key)
        start == getNeighborhoodStart(baseIndex)
        end == getNeighborhoodEnd(baseIndex)
        hopBitmap == hopInfo_[baseIndex]
        hits == {i \in 0 .. HOP_RANGE - 1 :
                    /\ start + i < end
                    /\ TestBit(hopBitmap, i)
                    /\ table_[start + i] # nullopt
                    /\ table_[start + i][1] = key}
        checkIndex == start + SetOfMin(hits)
        same == [table |-> table_, table2 |-> table2_, hopInfo |-> hopInfo_,
                 probeDistances |-> probeDistances_, found |-> FALSE]
    IN  IF hits = {} THEN same
        ELSE [same EXCEPT !.table = [table_ EXCEPT ![checkIndex] = Tomb],
                          !.hopInfo = updateHopInfo(hopInfo_, baseIndex, checkIndex, FALSE),
                          !.found = TRUE]

RemoveRobinHood(key) ==
    LET probe == RobinHoodStop(key)
        currentIndex == (hash(key) + probe) % capacity_
        same == [table |-> table_, table2 |-> table2_, hopInfo |-> hopInfo_,
                 probeDistances |-> probeDistances_, found |-> FALSE]
    IN  IF probe = -1 \/ table_[currentIndex] = nullopt THEN same
        ELSE CHOOSE r \in
               {[same EXCEPT !.table = shifted.table,
                             !.probeDistances = shifted.probeDistances,
                             !.found = TRUE] :
                  shifted \in {backwardShift([table_ EXCEPT ![currentIndex] = Tomb],
                                             [probeDistances_ EXCEPT ![currentIndex] = 0],
                                             currentIndex)}} : TRUE

Unplace(key) ==
    CASE currentMode_ = "Cuckoo" -> RemoveCuckoo(key)
      [] currentMode_ = "Hopscotch" -> RemoveHopscotch(key)
      [] currentMode_ = "RobinHood" -> RemoveRobinHood(key)

\* remove
Remove(key) ==
    /\ status = "ok"
    /\ IF capacity_ = 0
       THEN /\ status' = "crashed"
            /\ lastOp' = [op |-> "remove", key |-> key, value |-> 0, ret |-> FALSE,
                          steps |-> 0]
            /\ UNCHANGED storage
       ELSE \E gone \in {Unplace(key)} :
            \E unstashed \in {removeFromStash(stash_, key)} :
                /\ table_' = gone.table
                /\ table2_' = gone.table2
                /\ hopInfo_' = gone.hopInfo
                /\ probeDistances_' = gone.probeDistances
                /\ stash_' = IF gone.found THEN stash_ ELSE unstashed[1]
                /\ numElements_' = IF gone.found \/ unstashed[2]
                                   THEN numElements_ - 1 ELSE numElements_
                /\ lastOp' = [op |-> "remove", key |-> key, value |-> 0,
                              ret |-> (gone.found \/ unstashed[2]), steps |-> 0]
                /\ UNCHANGED <<capacity_, currentMode_, status>>
                /\ Drift' >= -MaxDrift

(***************************************************************************)
(* resize and rehash.  rehash collects the live entries of table_ and the  *)
(* stash, doubles capacity_, clears every array and then calls the public  *)
(* insert for each collected entry.  insert locks mutex_, which resize     *)
(* already holds: locking a std::shared_mutex its owner holds is undefined *)
(* behaviour.  The builds either never grant the lock ("deadlock") or      *)
(* report resource_deadlock_would_occur, a std::system_error that leaves   *)
(* resize through its unique_lock (ret = "threw").                         *)
(***************************************************************************)
\* the entries rehash collects: the live slots of tbl in index order, then the stash
RECURSIVE LiveFrom(_, _)
LiveFrom(tbl, i) ==
    IF i >= Len(tbl) THEN << >>
    ELSE (IF tbl[i + 1] # nullopt /\ ~isTombstone(tbl[i + 1]) THEN <<tbl[i + 1]>> ELSE << >>)
         \o LiveFrom(tbl, i + 1)

allElements ==
    LiveFrom([i \in 1 .. capacity_ |-> table_[i - 1]], 0) \o stash_

Resize(newSize) ==
    /\ status = "ok"
    /\ capacity_' = 2 * newSize
    /\ table_' = EmptyTable(2 * newSize)
    /\ table2_' = EmptyTable(2 * newSize)
    /\ hopInfo_' = Zeros(2 * newSize)
    /\ probeDistances_' = Zeros(2 * newSize)
    /\ stash_' = << >>
    /\ numElements_' = 0
    /\ UNCHANGED currentMode_
    /\ IF allElements = << >>
       THEN /\ status' = status
            /\ lastOp' = [op |-> "resize", key |-> "", value |-> newSize,
                          ret |-> "returned", steps |-> 0]
       ELSE \/ /\ status' = "deadlock"
               /\ lastOp' = [op |-> "resize", key |-> "", value |-> newSize,
                             ret |-> "blocked", steps |-> 0]
            \/ /\ status' = status
               /\ lastOp' = [op |-> "resize", key |-> "", value |-> newSize,
                             ret |-> "threw", steps |-> 0]

\* one caller: every call takes the lock, runs and releases it before the next
Next ==
    \/ \E key \in Keys : Search(key) /\ UNCHANGED locking
    \/ Size /\ UNCHANGED locking
    \/ LoadFactor /\ UNCHANGED locking
    \/ \E mode \in HashModes : SetMode(mode) /\ UNCHANGED locking
    \/ \E input \in Inputs : Insert(input[1], input[2]) /\ UNCHANGED locking
    \/ \E key \in Keys : Remove(key) /\ UNCHANGED locking
    \/ \E newSize \in NewSizes : Resize(newSize) /\ UNCHANGED locking

Spec == Init /\ [][Next]_vars

(***************************************************************************)
(* Several callers.  Every public method constructs its lock on mutex_ as  *)
(* its first statement and holds it until it returns: insert, remove,      *)
(* resize and setMode a std::unique_lock, search, size and loadFactor a    *)
(* std::shared_lock.  A thread enters a method's body when the lock is     *)
(* granted and leaves it when the method has run; the lock's destructor    *)
(* releases mutex_ as the thread leaves, also when resize leaves by the    *)
(* exception of a refused re-lock.  A thread that crashed the process or   *)
(* blocked on its own lock never leaves.                                   *)
(***************************************************************************)
WriterMethods == {"insert", "remove", "resize", "setMode"}
ReaderMethods == {"search", "size", "loadFactor"}

\* std::shared_mutex grants lock() when nobody holds it, and lock_shared()
\* when no exclusive owner holds it
CanLock == mutex_.owner = 0 /\ mutex_.shared = {}
\* lock_shared() as it would be if readers did not wait for the exclusive owner
CanLockSharedBesideOwner == TRUE
CanLockShared == mutex_.owner = 0

\* the keys, pairs and sizes the concurrent callers pass
ThreadKeys == {"k1", "k2"}
ThreadInputs == ThreadKeys \X {1}
ThreadSizes == {1}

\* std::unique_lock<std::shared_mutex> lock(mutex_) of a writer method
LockExclusive(t, method) ==
    /\ status = "ok"
    /\ inside[t] = "none"
    /\ CanLock
    /\ mutex_' = [mutex_ EXCEPT !.owner = t]
    /\ inside' = [inside EXCEPT ![t] = method]
    /\ UNCHANGED <<storage, status, lastOp>>

\* std::shared_lock<std::shared_mutex> lock(mutex_) of a reader method
LockShared(t, method) ==
    /\ status = "ok"
    /\ inside[t] = "none"
    /\ CanLockShared
    /\ mutex_' = [mutex_ EXCEPT !.shared = @ \cup {t}]
    /\ inside' = [inside EXCEPT ![t] = method]
    /\ UNCHANGED <<storage, status, lastOp>>

\* the body of the writer method thread t is in, then the unlock of its lock
RunWriter(t) ==
    /\ inside[t] \in WriterMethods
    /\ CASE inside[t] = "insert" -> \E input \in ThreadInputs : Insert(input[1], input[2])
         [] inside[t] = "remove" -> \E key \in ThreadKeys : Remove(key)
         [] inside[t] = "resize" -> \E newSize \in NewSizes : Resize(newSize)
         [] inside[t] = "setMode" -> \E mode \in HashModes : SetMode(mode)
    /\ IF status' = "ok"
       THEN /\ mutex_' = [mutex_ EXCEPT !.owner = 0]
            /\ inside' = [inside EXCEPT ![t] = "none"]
       ELSE UNCHANGED locking

\* the body of the reader method thread t is in, then the unlock of its lock
RunReader(t) ==
    /\ inside[t] \in ReaderMethods
    /\ CASE inside[t] = "search" -> \E key \in ThreadKeys : Search(key)
         [] inside[t] = "size" -> Size
         [] inside[t] = "loadFactor" -> LoadFactor
    /\ IF status' = "ok"
       THEN /\ mutex_' = [mutex_ EXCEPT !.shared = @ \ {t}]
            /\ inside' = [inside EXCEPT ![t] = "none"]
       ELSE UNCHANGED locking

InitThreads ==
    /\ capacity_ \in ThreadSizes
    /\ numElements_ = 0
    /\ currentMode_ = "Hopscotch"
    /\ table_ = EmptyTable(capacity_)
    /\ table2_ = EmptyTable(capacity_)
    /\ hopInfo_ = Zeros(capacity_)
    /\ probeDistances_ = Zeros(capacity_)
    /\ stash_ = << >>
    /\ status = "ok"
    /\ lastOp = [op |-> "create", key |-> "", value |-> 0, ret |-> TRUE, steps |-> 0]
    /\ mutex_ = Unlocked
    /\ inside = Outside

NextThreads ==
    \/ \E t \in Threads : \E method \in WriterMethods : LockExclusive(t, method)
    \/ \E t \in Threads : \E method \in ReaderMethods : LockShared(t, method)
    \/ \E t \in Threads : RunWriter(t)
    \/ \E t \in Threads : RunReader(t)

SpecThreads == InitThreads /\ [][NextThreads]_vars

(***************************************************************************)
(* Vocabulary of the properties.                                           *)
(***************************************************************************)
\* the number of live entries stored for key: slots of either table that hold
\* it and are no tombstones, and entries of the stash
Copies(key) ==
    Cardinality({i \in DOMAIN table_ :
                    table_[i] # nullopt /\ ~isTombstone(table_[i]) /\ table_[i][1] = key})
    + Cardinality({i \in DOMAIN table2_ :
                    table2_[i] # nullopt /\ ~isTombstone(table2_[i]) /\ table2_[i][1] = key})
    + Cardinality({i \in 1 .. Len(stash_) : stash_[i][1] = key})

Live(key) == Copies(key) > 0

\* this step is the call op(key), and the call returned
Returned(op, key) == lastOp'.op = op /\ lastOp'.key = key /\ status' = "ok"

\* this step is the call op(key), whether it returned or not
Called(op, key) == lastOp'.op = op /\ lastOp'.key = key

\* every key that is found before the step is found with the same value after it
FoundKeysKept == \A other \in Keys : search(other) # nullopt => search(other)' = search(other)

(***************************************************************************)
(* Properties.                                                             *)
(***************************************************************************)
\* C1: after any sequence of insert, remove, resize and setMode calls, in any
\* mode, no key has more than one live entry across the primary table, the
\* secondary table and the stash together.
C1_AtMostOneLiveEntryPerKey == \A key \in Keys : Copies(key) <= 1

\* C2: in each mode and from any reachable state, insert(k, v) of an absent key
\* followed immediately by search(k) returns v, for every key including the
\* sentinel string.  Stated for the calls that can store the key at all: the
\* table has slots and the stash has room.
C2_InsertThenSearch ==
    [][\A input \in Inputs :
          (/\ Returned("insert", input[1])
           /\ lastOp'.value = input[2]
           /\ ~Live(input[1])
           /\ Len(stash_) < MAX_STASH_SIZE)
          => search(input[1])' = <<input[2]>>]_vars

(***************************************************************************)
(* Filling a fresh Robin Hood table: a table constructed with a positive   *)
(* capacity and switched to Robin Hood mode, then only insert calls, each  *)
(* with a key that is not the sentinel string.                             *)
(***************************************************************************)
FillInputs == {input \in Inputs : input[1] # TOMBSTONE} \cup {<<"k2", 2>>, <<"k3", 2>>}

InitFill ==
    /\ capacity_ \in InitialSizes \ {0}
    /\ numElements_ = 0
    /\ currentMode_ = "RobinHood"
    /\ table_ = EmptyTable(capacity_)
    /\ table2_ = EmptyTable(capacity_)
    /\ hopInfo_ = Zeros(capacity_)
    /\ probeDistances_ = Zeros(capacity_)
    /\ stash_ = << >>
    /\ status = "ok"
    /\ lastOp = [op |-> "setMode", key |-> "RobinHood", value |-> 0, ret |-> TRUE, steps |-> 0]
    /\ mutex_ = Unlocked
    /\ inside = Outside

NextFill == \E input \in FillInputs : Insert(input[1], input[2]) /\ UNCHANGED locking

SpecFill == InitFill /\ [][NextFill]_vars

\* C3: in Robin Hood mode, after inserting n distinct keys into an empty table
\* whose capacity is smaller than n, size() returns n and search finds every
\* one of the n keys with its inserted value.  Stated step by step along a
\* fill: as long as the stash has room, the insert of a key not yet found adds
\* one to size(), makes that key found with its value and keeps every key
\* found so far.
C3_RobinHoodFillKeepsEveryKey ==
    [][\A input \in FillInputs :
          (/\ Returned("insert", input[1])
           /\ lastOp'.value = input[2]
           /\ search(input[1]) = nullopt
           /\ Len(stash_) < MAX_STASH_SIZE)
          => /\ size' = size + 1
             /\ search(input[1])' = <<input[2]>>
             /\ FoundKeysKept]_vars

\* C4: in Cuckoo mode every insert of an absent key finishes after at most
\* MAX_EVICTIONS eviction steps, and afterwards the inserted key and every key
\* that was live before the call are found with their values, whether the
\* chain ended in a free slot or ran out of budget and fell back to the stash.
\* Stated for keys other than the sentinel string and a stash with room.
C4_CuckooInsertKeepsEveryKey ==
    [][\A input \in Inputs :
          (/\ currentMode_ = "Cuckoo"
           /\ Returned("insert", input[1])
           /\ lastOp'.value = input[2]
           /\ input[1] # TOMBSTONE
           /\ ~Live(input[1])
           /\ Len(stash_) < MAX_STASH_SIZE)
          => /\ lastOp'.steps <= MAX_EVICTIONS
             /\ search(input[1])' = <<input[2]>>
             /\ FoundKeysKept]_vars

\* every slot of key's neighbourhood holds a live entry
NeighborhoodFull(key) ==
    \A i \in getNeighborhoodStart(hash(key)) .. getNeighborhoodEnd(hash(key)) - 1 :
        table_[i] # nullopt /\ ~isTombstone(table_[i])

\* what C5 promises of the step that inserts input
NothingLost(input) ==
    /\ lastOp'.ret = TRUE
    /\ size' = size + 1
    /\ search(input[1])' = <<input[2]>>
    /\ FoundKeysKept

\* C5 as stated: in Hopscotch mode, inserting an absent key whose neighbourhood
\* is completely occupied by live entries returns true, grows size() by exactly
\* one, leaves the new key found (in its neighbourhood or in the stash) and
\* keeps every previously live key found.
C5_FullNeighborhoodAsStated ==
    [][\A input \in Inputs :
          (/\ currentMode_ = "Hopscotch"
           /\ Returned("insert", input[1])
           /\ lastOp'.value = input[2]
           /\ ~Live(input[1])
           /\ NeighborhoodFull(input[1]))
          => NothingLost(input)]_vars

\* C5, amended: the same, provided the stash holds fewer than MAX_STASH_SIZE
\* entries when insert is called.
C5_FullNeighborhoodStashHasRoom ==
    [][\A input \in Inputs :
          (/\ currentMode_ = "Hopscotch"
           /\ Returned("insert", input[1])
           /\ lastOp'.value = input[2]
           /\ ~Live(input[1])
           /\ NeighborhoodFull(input[1])
           /\ Len(stash_) < MAX_STASH_SIZE)
          => NothingLost(input)]_vars

\* an insert into a full neighbourhood has just put its key in the stash while
\* an earlier key is still found
C5_Witness ==
    /\ currentMode_ = "Hopscotch"
    /\ lastOp.op = "insert"
    /\ lastOp.ret = TRUE
    /\ stash_ # << >>
    /\ stash_[Len(stash_)] = <<lastOp.key, lastOp.value>>
    /\ capacity_ > 0
    /\ NeighborhoodFull(lastOp.key)
    /\ \E other \in Keys \ {lastOp.key} : search(other) # nullopt

\* C6: in each mode and from any reachable state, after remove(k) returns true,
\* search(k) returns empty.
C6_RemoveThenSearch ==
    [][\A key \in Keys :
          (Returned("remove", key) /\ lastOp'.ret = TRUE)
          => search(key)' = nullopt]_vars

\* C7: remove(k) returns true exactly when a live entry for k existed before
\* the call, and then size() decreases by exactly one; when it returns false
\* the tables, the stash and size() are unchanged; in every mode and for every
\* key, the sentinel string included.  Stated for tables that have slots.
C7_RemoveReportsLiveEntry ==
    [][\A key \in Keys :
          (Called("remove", key) /\ capacity_ > 0)
          => /\ lastOp'.ret = Live(key)
             /\ lastOp'.ret = TRUE => size' = size - 1
             /\ lastOp'.ret = FALSE =>
                   UNCHANGED <<table_, table2_, stash_, numElements_>>]_vars

\* C8: insert(k, v) when k is already live returns false and is a no-op: the
\* primary table, the secondary table, the bookkeeping arrays, the stash,
\* size() and the value stored for k are exactly as before the call.
C8_InsertOfLiveKeyIsNoOp ==
    [][\A input \in Inputs :
          (/\ Called("insert", input[1])
           /\ lastOp'.value = input[2]
           /\ Live(input[1]))
          => /\ lastOp'.ret = FALSE
             /\ UNCHANGED storage
             /\ search(input[1])' = search(input[1])]_vars

\* C9: in every mode, insert(k, v) of an absent key returns true whenever the
\* stash holds fewer than MAX_STASH_SIZE entries; insert returns false only if
\* k was already present or the mode's placement failed and the stash is full.
C9_InsertFailsOnlyWhenFull ==
    [][\A input \in Inputs :
          (Called("insert", input[1]) /\ lastOp'.value = input[2])
          => /\ (~Live(input[1]) /\ Len(stash_) < MAX_STASH_SIZE)
                   => (status' = "ok" /\ lastOp'.ret = TRUE)
             /\ (status' = "ok" /\ lastOp'.ret = FALSE)
                   => \/ search(input[1]) # nullopt
                      \/ (~Place(input[1], input[2]).success
                          /\ Len(stash_) >= MAX_STASH_SIZE)]_vars

\* C10: in every reachable state size() equals the number of live (non-empty,
\* non-tombstone) entries of the primary table, the secondary table and the
\* stash together, and loadFactor() equals that count divided by
\* (capacity + stash length).
C10_SizeCountsLiveEntries ==
    status = "ok" =>
        /\ size = LiveEntries
        /\ loadFactor = <<LiveEntries, capacity_ + Len(stash_)>>

\* C11: in each mode, after resize returns, every key that was live before the
\* call, whether it lived in the primary table, the secondary table or the
\* stash, is found with the same value, and size() is the same as before.
C11_ResizeKeepsEveryKey ==
    [][(lastOp'.op = "resize" /\ lastOp'.ret = "returned" /\ capacity_' > 0)
          => /\ size' = size
             /\ \A key \in Keys :
                   (capacity_ > 0 /\ search(key) # nullopt) => search(key)' = search(key)]_vars

\* C12: a call to resize on a table holding at least one live entry returns
\* and releases the exclusive lock: the thread that holds the exclusive lock
\* never calls an entry point that acquires the same lock again.
C12_ResizeReturns ==
    [][(lastOp'.op = "resize" /\ LiveEntries > 0)
          => (status' = "ok" /\ lastOp'.ret = "returned")]_vars

\* C13: with any number of concurrent callers and any interleaving, at most
\* one thread is inside the body of insert, remove, resize or setMode at a
\* time, and no thread is inside search, size or loadFactor while a writer is
\* inside; several readers may be inside together.
C13_WritersExcludeEveryone ==
    \A t \in Threads : \A u \in Threads \ {t} :
        inside[t] \in WriterMethods => inside[u] = "none"

\* two readers are inside together
C13_Witness ==
    \E t \in Threads : \E u \in Threads \ {t} :
        inside[t] \in ReaderMethods /\ inside[u] \in ReaderMethods

\* C14: after setMode(m), for any m including the currently active mode,
\* size() is 0, the stash is empty, and search returns empty for every key
\* that had been inserted before the call (any key can have been).  search
\* returns only on a table that has slots.
C14_SetModeEmptiesTheTable ==
    [][lastOp'.op = "setMode"
          => /\ size' = 0
             /\ stash_' = << >>
             /\ capacity_' > 0
             /\ \A key \in Keys : search(key)' = nullopt]_vars

\* C15: when insert returns false because placement failed and the stash is
\* full, the primary table, the secondary table, the bookkeeping arrays, the
\* stash and size() are exactly as before the call, in every mode.
C15_FailedInsertChangesNothing ==
    [][\A input \in Inputs :
          (/\ Returned("insert", input[1])
           /\ lastOp'.value = input[2]
           /\ lastOp'.ret = FALSE
           /\ search(input[1]) = nullopt)
          => UNCHANGED storage]_vars

\* C16: in every reachable state and in every mode, Cuckoo with its two tables
\* included, loadFactor() lies in [0, 1]: the element count never exceeds
\* capacity plus stash length.  Stated for the states in which the quotient
\* has a divisor other than 0.
C16_LoadFactorAtMostOne ==
    (status = "ok" /\ loadFactor[2] > 0) =>
        /\ 0 <= loadFactor[1]
        /\ loadFactor[1] <= loadFactor[2]

\* C17: for every argument n, the capacity after resize(n) is at least the
\* capacity before the call; resize never shrinks the table.
C17_ResizeNeverShrinks ==
    [][lastOp'.op = "resize" => capacity_' >= capacity_]_vars

\* C18: constructing a table with initial capacity 0 is rejected before any
\* backing array is built; no table with capacity 0 is ever reachable, so no
\* operation computes an index modulo 0.
C18_CapacityIsNeverZero == capacity_ > 0 /\ status # "crashed"

C20_RemoveLeavesOtherKeysAlone ==
    [][\A key \in Keys :
          (Returned("remove", key) /\ capacity_ > 0)
          => \A other \in Keys \ {key} : search(other)' = search(other)]_vars

\* the state is one between public operations of a table that has slots, in
\* the given mode
Quiescent(mode) == status = "ok" /\ capacity_ > 0 /\ currentMode_ = mode

\* the displacement of the live entry at slot p from its key's ideal index
Displacement(p) == getProbeDistance(hash(table_[p][1]), p)

\* C21: in Robin Hood mode, in every state between public operations, for
\* every live table entry at slot p with ideal index i no slot on the probe
\* path from i up to (not including) p is empty, so that search's stop at the
\* first empty slot never misses a live table entry.
C21_RobinHoodNoGapBeforeLiveEntry ==
    Quiescent("RobinHood") =>
        \A p \in LiveSlots(table_) :
            \A d \in 0 .. Displacement(p) - 1 :
                table_[(hash(table_[p][1]) + d) % capacity_] # nullopt

\* C22: in Robin Hood mode, in every state between public operations, the
\* recorded probe distance of each live slot p equals the actual displacement
\* (p - ideal(key)) mod capacity of the key stored there.
C22_RecordedDistanceIsDisplacement ==
    Quiescent("RobinHood") =>
        \A p \in LiveSlots(table_) : probeDistances_[p] = Displacement(p)

\* C23: in Cuckoo mode, in every state between public operations, each live
\* entry of the primary table sits at index primary(key) mod capacity, each
\* live entry of the secondary table sits at index secondary(key) mod
\* capacity, and no key is live in more than one place (primary table,
\* secondary table, stash).
C23_CuckooEntryAtOneCandidate ==
    Quiescent("Cuckoo") =>
        /\ \A p \in LiveSlots(table_) : p = hash1(table_[p][1])
        /\ \A p \in LiveSlots(table2_) : p = hash2(table2_[p][1])
        /\ \A key \in Keys : Copies(key) <= 1

\* the key is stored in the primary table, in a slot of its neighbourhood
\* whose bit is set in the bitmap of its anchor
StoredInNeighborhood(key) ==
    \E p \in getNeighborhoodStart(hash(key)) .. getNeighborhoodEnd(hash(key)) - 1 :
        /\ table_[p] # nullopt
        /\ table_[p][1] = key
        /\ TestBit(hopInfo_[hash(key)], p - getNeighborhoodStart(hash(key)))

\* C24: in Hopscotch mode, when the inserting key's neighbourhood is full and
\* displace reports success, the retried neighbourhood scan finds a free slot
\* in that neighbourhood and the new key is stored in the primary table with
\* its bitmap bit set, not in the stash.
C24_DisplaceMakesRoom ==
    [][\A input \in Inputs :
          (/\ Quiescent("Hopscotch")
           /\ Returned("insert", input[1])
           /\ lastOp'.value = input[2]
           /\ search(input[1]) = nullopt
           /\ input[1] # TOMBSTONE
           /\ NeighborhoodFull(input[1])
           /\ FirstMovable(hash(input[1])) # 0)
          => /\ StoredInNeighborhood(input[1])'
             /\ stash_' = stash_]_vars

\* bit j of the bitmap at anchor i names a slot that holds a live entry whose
\* hashed index is i
BitClaims(i, j) ==
    LET p == getNeighborhoodStart(i) + j
    IN  /\ p < capacity_
        /\ table_[p] # nullopt
        /\ ~isTombstone(table_[p])
        /\ hash(table_[p][1]) = i

\* C25: in Hopscotch mode, in every state between public operations (after any
\* mix of insert, remove and displacement), bit j of the bitmap at anchor i is
\* set if and only if slot start(i)+j holds a live entry whose hashed index is
\* i; consequently at most one anchor claims any given slot.
C25_BitmapNamesLiveEntries ==
    Quiescent("Hopscotch") =>
        \A i \in 0 .. capacity_ - 1 : \A j \in 0 .. HOP_RANGE - 1 :
            TestBit(hopInfo_[i], j) <=> BitClaims(i, j)

\* C27: in Hopscotch mode every live entry of the primary table lies inside
\* its own anchor's neighbourhood [start(a), min(start(a) + HOP_RANGE,
\* capacity)), where a is its key's hashed index; a live key that is not inside
\* its neighbourhood exists only in the stash.
C27_LiveEntryInsideItsNeighborhood ==
    Quiescent("Hopscotch") =>
        \A p \in LiveSlots(table_) :
            /\ p >= getNeighborhoodStart(hash(table_[p][1]))
            /\ p < getNeighborhoodEnd(hash(table_[p][1]))

\* a Hopscotch table that holds a live entry away from its hashed index, after
\* an insert that found its neighbourhood full and went to the stash
C27_Witness ==
    /\ Quiescent("Hopscotch")
    /\ \E p \in LiveSlots(table_) : p # hash(table_[p][1])
    /\ lastOp.op = "insert"
    /\ lastOp.key # TOMBSTONE
    /\ stash_ # << >>
    /\ stash_[Len(stash_)][1] = lastOp.key

(***************************************************************************)
(* Filling a fresh Robin Hood table of three or four slots with four keys, *)
(* three of which share one ideal index when the table has three slots:    *)
(* only insert calls.                                                      *)
(***************************************************************************)
ChainInputs == {"k1", "k2", "k3", "k4"} \X {1}

InitChain ==
    /\ capacity_ \in {3, 4}
    /\ numElements_ = 0
    /\ currentMode_ = "RobinHood"
    /\ table_ = EmptyTable(capacity_)
    /\ table2_ = EmptyTable(capacity_)
    /\ hopInfo_ = Zeros(capacity_)
    /\ probeDistances_ = Zeros(capacity_)
    /\ stash_ = << >>
    /\ status = "ok"
    /\ lastOp = [op |-> "setMode", key |-> "RobinHood", value |-> 0, ret |-> TRUE, steps |-> 0]
    /\ mutex_ = Unlocked
    /\ inside = Outside

NextChain == \E input \in ChainInputs : Insert(input[1], input[2]) /\ UNCHANGED locking

SpecChain == InitChain /\ [][NextChain]_vars

=============================================================================
